---- MODULE Spec2Model ----
(***************************************************************************)
(* Model of drivers/st7735r/st7735r144.py: the ST7735R nano-gui display    *)
(* driver.  The state is the device object (pixel buffer, line buffer,     *)
(* geometry), the three control pins and the SPI bus seen through a        *)
(* recording bus, and the position of the running method.                  *)
(*                                                                         *)
(* bytearrays are functions over 0..n-1, as the code indexes them; bytes   *)
(* objects written to the bus are sequences of numbers 0..255.             *)
(***************************************************************************)
EXTENDS Integers, Sequences, FiniteSets, TLC

(***************************************************************************)
(* Bounds of the model.                                                    *)
(***************************************************************************)
MaxHeight == 4
MaxWidth == 2
MaxDraws == 1
MaxFails == 1
MaxLen == 3

(***************************************************************************)
(* Python integer operators on non-negative integers.                      *)
(***************************************************************************)
RECURSIVE Pow2(_)
Pow2(n) == IF n = 0 THEN 1 ELSE 2 * Pow2(n - 1)

RECURSIVE BitAnd(_, _)
BitAnd(a, b) ==
    IF a = 0 \/ b = 0 THEN 0
    ELSE (IF a % 2 = 1 /\ b % 2 = 1 THEN 1 ELSE 0) + 2 * BitAnd(a \div 2, b \div 2)

RECURSIVE BitOr(_, _)
BitOr(a, b) ==
    IF a = 0 THEN b
    ELSE IF b = 0 THEN a
    ELSE (IF a % 2 = 1 \/ b % 2 = 1 THEN 1 ELSE 0) + 2 * BitOr(a \div 2, b \div 2)

Shl(a, n) == a * Pow2(n)

Shr(a, n) == a \div Pow2(n)

\* A store through a viper ptr8 keeps the low 8 bits.
Store8(v) == v % 256

\* int.to_bytes(v, n, 'big') for a value that fits in n bytes.
RECURSIVE to_bytes(_, _)
to_bytes(v, n) ==
    IF n = 0 THEN << >> ELSE Append(to_bytes(v \div 256, n - 1), v % 256)

\* bytes(ba): the bytes a bytearray hands to spi.write.
AsBytes(ba) == [i \in 1..Cardinality(DOMAIN ba) |-> ba[i - 1]]

\* bytearray(n)
bytearray(n) == [i \in 0..(n - 1) |-> 0]

\* buf[start :] of a memoryview
Slice(buf, start) ==
    [x \in 0..(Cardinality(DOMAIN buf) - start - 1) |-> buf[start + x]]

(***************************************************************************)
(* _lcopy: 8 bit rrrgggbb source to the 16 bit wire format.                *)
(***************************************************************************)
lcopy_bg_shr1(c) == BitOr(Shl(BitAnd(c, 3), 6), Shr(BitAnd(c, \H1c), 1))

\* line 31
lcopy_bg(c) == BitOr(Shl(BitAnd(c, 3), 6), Shr(BitAnd(c, \H1c), 2))

lcopy_red_mask(c) == Shr(BitAnd(c, \Hc0), 3)

\* line 33
lcopy_red(c) == Shr(BitAnd(c, \He0), 3)

lcopy_body_same_n(dest, c, n) ==
    LET d1 == [dest EXCEPT ![n] = Store8(lcopy_bg(c))]
    IN  [d1 EXCEPT ![n] = Store8(lcopy_red(c))]

\* lines 30-34: one iteration, writing dest[n] and dest[n + 1]
lcopy_body(dest, c, n) ==
    LET d1 == [dest EXCEPT ![n] = Store8(lcopy_bg(c))]
    IN  [d1 EXCEPT ![n + 1] = Store8(lcopy_red(c))]

RECURSIVE lcopy_loop(_, _, _, _, _)
lcopy_loop(dest, source, length, x, n) ==
    IF x >= length THEN dest
    ELSE lcopy_loop(lcopy_body(dest, source[x], n), source, length, x + 1, n + 2)

lcopy(dest, source, length) == lcopy_loop(dest, source, length, 0, 0)

(***************************************************************************)
(* _lcopy12: two 8 bit rrrgggbb source bytes to three bytes of 12 bit      *)
(* RGB444.                                                                 *)
(***************************************************************************)
\* line 50
lcopy12_r0g0(c) == BitOr(BitAnd(c, \He0), Shr(BitAnd(c, \H1c), 1))

lcopy12_b0r1_shr5(c, d) == BitOr(Shl(BitAnd(c, 3), 6), Shr(BitAnd(d, \He0), 5))

\* line 52
lcopy12_b0r1(c, d) == BitOr(Shl(BitAnd(c, 3), 6), Shr(BitAnd(d, \He0), 4))

\* line 54
lcopy12_g1b1(d) == BitOr(Shl(BitAnd(d, \H1c), 3), Shl(BitAnd(d, 3), 2))

\* lines 48-55: one iteration, writing dest[n], dest[n + 1] and dest[n + 2]
lcopy12_body(dest, c, d, n) ==
    LET d1 == [dest EXCEPT ![n] = Store8(lcopy12_r0g0(c))]
        d2 == [d1 EXCEPT ![n + 1] = Store8(lcopy12_b0r1(c, d))]
    IN  [d2 EXCEPT ![n + 2] = Store8(lcopy12_g1b1(d))]

\* line 47: for x in range(0, length, 2)
RECURSIVE lcopy12_loop(_, _, _, _, _)
lcopy12_loop(dest, source, length, x, n) ==
    IF x >= length THEN dest
    ELSE lcopy12_loop(lcopy12_body(dest, source[x], source[x + 1], n),
                      source, length, x + 2, n + 3)

lcopy12(dest, source, length) == lcopy12_loop(dest, source, length, 0, 0)

(***************************************************************************)
(* ST7735R.rgb                                                             *)
(***************************************************************************)
rgb_green_shr2(r, g, b) ==
    BitOr(BitOr(BitAnd(r, \He0), BitAnd(Shr(g, 2), \H1c)), Shr(b, 6))

rgb(r, g, b) ==
    BitOr(BitOr(BitAnd(r, \He0), BitAnd(Shr(g, 3), \H1c)), Shr(b, 6))

(***************************************************************************)
(* Pins and bus.  hw holds the level of each pin, the exception flag of    *)
(* the running call and what the bus recorded:                             *)
(*   writes   the bus writes attempted by the running _init or show call,  *)
(*            each with the pin levels at the moment of the write, whether *)
(*            it completed, and how many writes were attempted (before)    *)
(*            and completed (beforeOk) earlier in the same interval of     *)
(*            chip-select being active (cs is active low);                 *)
(*   att, done  those two counts for the current interval;                 *)
(*   rsts     the levels written to the reset pin.                         *)
(* A statement reached while an exception propagates is not executed.      *)
(***************************************************************************)
set_dc(h, v) == IF h.exc THEN h ELSE [h EXCEPT !.dc = v]

set_rst(h, v) == IF h.exc THEN h ELSE [h EXCEPT !.rst = v, !.rsts = Append(@, v)]

set_cs_in_finally(h, v) ==
    [h EXCEPT !.cs = v,
              !.att = IF v = 1 \/ h.cs = 1 THEN 0 ELSE @,
              !.done = IF v = 1 \/ h.cs = 1 THEN 0 ELSE @]

set_cs(h, v) ==
    IF h.exc THEN h
    ELSE [h EXCEPT !.cs = v,
                   !.att = IF v = 1 \/ h.cs = 1 THEN 0 ELSE @,
                   !.done = IF v = 1 \/ h.cs = 1 THEN 0 ELSE @]

spi_write_swallow(h, buf, ok) ==
    IF h.exc THEN h
    ELSE [h EXCEPT !.writes = Append(@, [buf |-> buf, dc |-> h.dc, cs |-> h.cs,
                                         ok |-> ok, before |-> h.att,
                                         beforeOk |-> h.done]),
                   !.att = @ + 1,
                   !.done = IF ok THEN @ + 1 ELSE @]

\* self._spi.write(buf): completes (ok) or raises
spi_write(h, buf, ok) ==
    IF h.exc THEN h
    ELSE [h EXCEPT !.writes = Append(@, [buf |-> buf, dc |-> h.dc, cs |-> h.cs,
                                         ok |-> ok, before |-> h.att,
                                         beforeOk |-> h.done]),
                   !.att = @ + 1,
                   !.done = IF ok THEN @ + 1 ELSE @,
                   !.exc = ~ok]

\* _hwreset, lines 85-91
hwreset(h) == set_rst(set_rst(set_rst(set_dc(h, 0), 1), 0), 1)

\* _wcmd, lines 95-98; f = 1: the write raises
wcmd(h, buf, f) ==
    LET h1 == set_dc(h, 0)
        h2 == set_cs(h1, 0)
        h3 == spi_write(h2, buf, f # 1)
    IN  set_cs(h3, 1)

wcd_no_data_mode(h, c, d, f) ==
    LET h1 == set_dc(h, 0)
        h2 == set_cs(h1, 0)
        h3 == spi_write(h2, c, f # 1)
        h4 == set_cs(h3, 1)
        h6 == set_cs(h4, 0)
        h7 == spi_write(h6, d, f # 2)
    IN  set_cs(h7, 1)

wcd_no_deassert(h, c, d, f) ==
    LET h1 == set_dc(h, 0)
        h2 == set_cs(h1, 0)
        h3 == spi_write(h2, c, f # 1)
        h5 == set_dc(h3, 1)
        h6 == set_cs(h5, 0)
        h7 == spi_write(h6, d, f # 2)
    IN  set_cs(h7, 1)

\* _wcd, lines 102-109; f = 1: the command write raises, f = 2: the data write
wcd(h, c, d, f) ==
    LET h1 == set_dc(h, 0)
        h2 == set_cs(h1, 0)
        h3 == spi_write(h2, c, f # 1)
        h4 == set_cs(h3, 1)
        h5 == set_dc(h4, 1)
        h6 == set_cs(h5, 0)
        h7 == spi_write(h6, d, f # 2)
    IN  set_cs(h7, 1)

(***************************************************************************)
(* The register writes of _init, lines 116-146, in order.  d = << >> marks *)
(* a command sent by _wcmd; ms is the sleep_ms that follows.               *)
(***************************************************************************)
InitSeq ==
    << [c |-> <<\H01>>, d |-> << >>, ms |-> 150],
       [c |-> <<\H11>>, d |-> << >>, ms |-> 256],
       [c |-> <<\Hb1>>, d |-> <<\H01, \H2c, \H2d>>, ms |-> 0],
       [c |-> <<\Hb2>>, d |-> <<\H01, \H2c, \H2d>>, ms |-> 0],
       [c |-> <<\Hb3>>, d |-> <<\H01, \H2c, \H2d, \H01, \H2c, \H2d>>, ms |-> 0],
       [c |-> <<\Hb4>>, d |-> <<\H07>>, ms |-> 0],
       [c |-> <<\Hc0>>, d |-> <<\Ha2, \H02, \H84>>, ms |-> 0],
       [c |-> <<\Hc1>>, d |-> <<\Hc5>>, ms |-> 0],
       [c |-> <<\Hc2>>, d |-> <<\H0a, \H00>>, ms |-> 0],
       [c |-> <<\Hc3>>, d |-> <<\H8a, \H2a>>, ms |-> 0],
       [c |-> <<\Hc4>>, d |-> <<\H8a, \Hee>>, ms |-> 0],
       [c |-> <<\Hc5>>, d |-> <<\H0e>>, ms |-> 0],
       [c |-> <<\H20>>, d |-> << >>, ms |-> 0],
       [c |-> <<\H36>>, d |-> <<\He0>>, ms |-> 0],
       [c |-> <<\H3a>>, d |-> <<\H05>>, ms |-> 0],
       [c |-> <<\He0>>, d |-> <<\H02, \H1c, \H07, \H12, \H37, \H32, \H29, \H2d,
                                \H29, \H25, \H2b, \H39, \H00, \H01, \H03, \H10>>, ms |-> 0],
       [c |-> <<\He1>>, d |-> <<\H03, \H1d, \H07, \H06, \H2e, \H2c, \H29, \H2d,
                                \H2e, \H2e, \H37, \H3f, \H00, \H00, \H02, \H10>>, ms |-> 0],
       [c |-> <<\H13>>, d |-> << >>, ms |-> 10],
       [c |-> <<\H29>>, d |-> << >>, ms |-> 100] >>

InitEntry_colmod_12bit(i) ==
    IF InitSeq[i].c = <<\H3a>> THEN [InitSeq[i] EXCEPT !.d = <<\H03>>] ELSE InitSeq[i]

InitEntry_gamma_first(i) ==
    InitSeq[IF i = 15 THEN 16 ELSE IF i = 16 THEN 17 ELSE IF i = 17 THEN 15 ELSE i]

\* The i-th register write of _init.
InitEntry(i) == InitSeq[i]

(***************************************************************************)
(* show: the commands and their arguments.                                 *)
(***************************************************************************)
CASET == <<\H2a>>

RASET_repeats_caset == <<\H2a>>

RASET == <<\H2b>>

RAMWR == <<\H2c>>

CasetArg_swapped == to_bytes(Shl(160, 16) + 3, 4)

\* line 158
CasetArg == to_bytes(Shl(3, 16) + 160, 4)

RasetArg_end_is_start(row) == to_bytes(Shl(row + 2, 16) + row + 2, 4)

RasetArg_no_offset(row) == to_bytes(Shl(row, 16) + row + 1, 4)

\* line 159
RasetArg(row) == to_bytes(Shl(row + 2, 16) + row + 3, 4)

LoopCond_gt(row) == row > 0

\* line 156
LoopCond(row) == row >= 0

NextStart_line_buffer_length(start, wd) == start + 2 * wd

NextStart_stuck(start, wd) == start

\* line 161
NextStart(start, wd) == start + wd

(***************************************************************************)
(* State.                                                                  *)
(*   height, width   self.height, self.width                               *)
(*   buffer          self.buffer, the pixel buffer (GS8 FrameBuffer)       *)
(*   linebuf         self._linebuf                                         *)
(*   hw              pins, exception flag and recording bus                *)
(*   mode            the method that is running                            *)
(*   ctor            TRUE while __init__ has not returned                  *)
(*   ip              index of the next register write of _init             *)
(*   start, row, lp  the locals of show and the next statement of its loop *)
(*   snap            the pixel buffer as it was when show was entered      *)
(*   draws           number of pixels drawn so far                         *)
(*   fails           number of bus writes that raised so far               *)
(*   args            the arguments of a pending rgb() call                 *)
(***************************************************************************)
VARIABLES height, width, buffer, linebuf, hw, mode, ctor, ip, start, row, lp,
          snap, draws, fails, args

vars == <<height, width, buffer, linebuf, hw, mode, ctor, ip, start, row, lp,
          snap, draws, fails, args>>

\* The colours the drawing layer uses, as arguments of rgb().
Palette == { <<255, 0, 0>>, <<90, 200, 130>> }

\* Arguments of rgb() for the codec checks: each channel over its whole
\* range against a few values of the two others.
Few == {0, 85, 255}

RGBInputs ==
    ((0..255) \X Few \X Few) \cup (Few \X (0..255) \X Few) \cup (Few \X Few \X (0..255))

\* __init__, lines 66-79: the object just before self._init() is called.
\* The levels of the three pins handed in are not known.
Init ==
    /\ height \in 1..MaxHeight
    /\ width \in 1..MaxWidth
    /\ buffer = bytearray(height * width)
    /\ linebuf = bytearray(width * 2)
    /\ hw \in [cs : {0, 1}, dc : {0, 1}, rst : {0, 1}, exc : {FALSE},
               writes : {<< >>}, att : {0}, done : {0}, rsts : {<< >>}]
    /\ mode = "reset"
    /\ ctor = TRUE
    /\ ip = 1
    /\ start = 0
    /\ row = 0
    /\ lp = "caset"
    /\ snap = buffer
    /\ draws = 0
    /\ fails = 0
    /\ args = << >>

\* The mode a call is left in when it ends: the exception leaves __init__
\* too when it is raised under it, and no object exists then.
After(h, running) ==
    IF h.exc THEN (IF ctor THEN "dead" ELSE "raised") ELSE running

\* The outcomes of a call that makes n bus writes: 0, none raises; k, the
\* k-th raises.  At most MaxFails writes raise in a behaviour.
Outcomes(n) == IF fails < MaxFails THEN 0..n ELSE {0}

Raised(h) == IF h.exc THEN fails + 1 ELSE fails

\* _init, line 113
HwReset ==
    /\ mode = "reset"
    /\ hw' = hwreset(hw)
    /\ mode' = "init"
    /\ UNCHANGED <<height, width, buffer, linebuf, ctor, ip, start, row, lp,
                   snap, draws, fails, args>>

\* _init, a cmd(...) line of lines 116-145
InitCmd ==
    /\ mode = "init"
    /\ ip <= Len(InitSeq)
    /\ InitEntry(ip).d = << >>
    /\ \E f \in Outcomes(1) :
        /\ hw' = wcmd(hw, InitEntry(ip).c, f)
        /\ mode' = After(hw', "init")
        /\ fails' = Raised(hw')
        /\ ip' = IF hw'.exc THEN ip ELSE ip + 1
    /\ UNCHANGED <<height, width, buffer, linebuf, ctor, start, row, lp,
                   snap, draws, args>>

\* _init, a wcd(...) line of lines 120-138
InitWcd ==
    /\ mode = "init"
    /\ ip <= Len(InitSeq)
    /\ InitEntry(ip).d # << >>
    /\ \E f \in Outcomes(2) :
        /\ hw' = wcd(hw, InitEntry(ip).c, InitEntry(ip).d, f)
        /\ mode' = After(hw', "init")
        /\ fails' = Raised(hw')
        /\ ip' = IF hw'.exc THEN ip ELSE ip + 1
    /\ UNCHANGED <<height, width, buffer, linebuf, ctor, start, row, lp,
                   snap, draws, args>>

\* show, lines 149-155: entry.  The recording bus starts a new record.
ShowEntry ==
    /\ mode' = "show"
    /\ hw' = [hw EXCEPT !.exc = FALSE, !.writes = << >>]
    /\ start' = 0
    /\ row' = height - 1
    /\ lp' = "caset"
    /\ snap' = buffer

\* __init__, line 81: _init has returned and show is called
InitReturn ==
    /\ mode = "init"
    /\ ip > Len(InitSeq)
    /\ ShowEntry
    /\ UNCHANGED <<height, width, buffer, linebuf, ctor, ip, draws, fails, args>>

\* The caller calls show(), also after a call that raised.
ShowCall ==
    /\ mode \in {"idle", "raised"}
    /\ ShowEntry
    /\ UNCHANGED <<height, width, buffer, linebuf, ctor, ip, draws, fails, args>>

\* show, lines 156-158
ShowCaset ==
    /\ mode = "show"
    /\ lp = "caset"
    /\ LoopCond(row)
    /\ linebuf' = lcopy(linebuf, Slice(buffer, start), width)
    /\ \E f \in Outcomes(2) :
        /\ hw' = wcd(hw, CASET, CasetArg, f)
        /\ mode' = After(hw', "show")
        /\ fails' = Raised(hw')
        /\ lp' = IF hw'.exc THEN lp ELSE "raset"
    /\ UNCHANGED <<height, width, buffer, ctor, ip, start, row, snap, draws, args>>

\* show, line 159
ShowRaset ==
    /\ mode = "show"
    /\ lp = "raset"
    /\ \E f \in Outcomes(2) :
        /\ hw' = wcd(hw, RASET, RasetArg(row), f)
        /\ mode' = After(hw', "show")
        /\ fails' = Raised(hw')
        /\ lp' = IF hw'.exc THEN lp ELSE "ramwr"
    /\ UNCHANGED <<height, width, buffer, linebuf, ctor, ip, start, row, snap,
                   draws, args>>

ShowRamwr_clears_row ==
    /\ mode = "show"
    /\ lp = "ramwr"
    /\ \E f \in Outcomes(2) :
        /\ hw' = wcd(hw, RAMWR, AsBytes(linebuf), f)
        /\ mode' = After(hw', "show")
        /\ fails' = Raised(hw')
        /\ lp' = IF hw'.exc THEN lp ELSE "caset"
        /\ start' = IF hw'.exc THEN start ELSE NextStart(start, width)
        /\ row' = IF hw'.exc THEN row ELSE row - 1
    /\ buffer' = [i \in DOMAIN buffer |->
                    IF i \in start..(start + width - 1) THEN 0 ELSE buffer[i]]
    /\ UNCHANGED <<height, width, linebuf, ctor, ip, snap, draws, args>>

\* show, lines 160-162
ShowRamwr ==
    /\ mode = "show"
    /\ lp = "ramwr"
    /\ \E f \in Outcomes(2) :
        /\ hw' = wcd(hw, RAMWR, AsBytes(linebuf), f)
        /\ mode' = After(hw', "show")
        /\ fails' = Raised(hw')
        /\ lp' = IF hw'.exc THEN lp ELSE "caset"
        /\ start' = IF hw'.exc THEN start ELSE NextStart(start, width)
        /\ row' = IF hw'.exc THEN row ELSE row - 1
    /\ UNCHANGED <<height, width, buffer, linebuf, ctor, ip, snap, draws, args>>

\* show, line 156: the loop ends and show returns (and __init__ with it)
ShowReturn ==
    /\ mode = "show"
    /\ lp = "caset"
    /\ ~LoopCond(row)
    /\ mode' = "idle"
    /\ ctor' = FALSE
    /\ UNCHANGED <<height, width, buffer, linebuf, hw, ip, start, row, lp,
                   snap, draws, fails, args>>

\* The drawing layer sets the pixel (x, y) of the GS8 frame buffer to a
\* colour made by rgb(), between calls of show.
Draw ==
    /\ mode \in {"idle", "raised"}
    /\ draws < MaxDraws
    /\ \E x \in 0..(width - 1), y \in 0..(height - 1), p \in Palette :
        buffer' = [buffer EXCEPT ![y * width + x] = rgb(p[1], p[2], p[3])]
    /\ draws' = draws + 1
    /\ UNCHANGED <<height, width, linebuf, hw, mode, ctor, ip, start, row, lp,
                   snap, fails, args>>

Next ==
    \/ HwReset
    \/ InitCmd
    \/ InitWcd
    \/ InitReturn
    \/ ShowCall
    \/ ShowCaset
    \/ ShowRaset
    \/ ShowRamwr
    \/ ShowReturn
    \/ Draw

Spec == Init /\ [][Next]_vars

\* show runs on the calling thread and every bus write blocks until the
\* transport completes it or raises: a running show always takes its next step.
SpecLive ==
    /\ Spec
    /\ WF_vars(ShowCaset \/ ShowRaset \/ ShowRamwr \/ ShowReturn)

(***************************************************************************)
(* The codec and rgb() alone, on inputs over the whole byte range.         *)
(*   c_raw  a scanline of `width` pixels holding the byte c at one index   *)
(*          and a filler elsewhere, the line buffer holding old bytes      *)
(*   c_rgb  a one-pixel scanline about to receive rgb(args)                *)
(***************************************************************************)
HwOff ==
    [cs |-> 1, dc |-> 0, rst |-> 1, exc |-> FALSE, writes |-> << >>,
     att |-> 0, done |-> 0, rsts |-> << >>]

InitCodec ==
    /\ height = 1
    /\ hw = HwOff
    /\ ctor = FALSE
    /\ ip = 1
    /\ start = 0
    /\ row = 0
    /\ lp = "caset"
    /\ draws = 0
    /\ fails = 0
    /\ \/ /\ mode = "c_raw"
          /\ args = << >>
          /\ width \in 1..MaxLen
          /\ \E i \in 0..(width - 1), c \in 0..255, filler \in {0, 255} :
                buffer = [x \in 0..(width - 1) |-> IF x = i THEN c ELSE filler]
          /\ \E old \in {0, 255} :
                linebuf = [n \in 0..(2 * width - 1) |-> old]
       \/ /\ mode = "c_rgb"
          /\ args \in RGBInputs
          /\ width = 1
          /\ buffer = bytearray(1)
          /\ linebuf = bytearray(2)
    /\ snap = buffer

\* buffer[0] = rgb(r, g, b)
CodecEncode ==
    /\ mode = "c_rgb"
    /\ buffer' = [buffer EXCEPT ![0] = rgb(args[1], args[2], args[3])]
    /\ mode' = "c_enc"
    /\ UNCHANGED <<height, width, linebuf, hw, ctor, ip, start, row, lp, snap,
                   draws, fails, args>>

\* _lcopy(lb, buf[0 :], wd)
CodecConvert ==
    /\ mode \in {"c_raw", "c_enc"}
    /\ linebuf' = lcopy(linebuf, Slice(buffer, 0), width)
    /\ mode' = "c_out"
    /\ UNCHANGED <<height, width, buffer, hw, ctor, ip, start, row, lp, snap,
                   draws, fails, args>>

NextCodec ==
    \/ CodecEncode
    \/ CodecConvert

SpecCodec == InitCodec /\ [][NextCodec]_vars

(***************************************************************************)
(* _lcopy12 alone, on scanlines of even length.                            *)
(*   t_raw  a scanline holding the bytes c, d as its pair p and a filler   *)
(*          elsewhere; the destination holds old bytes and is one byte     *)
(*          longer than the 3 * length / 2 bytes of the output.  Scanlines *)
(*          of one pair take c, d over the whole byte range.               *)
(***************************************************************************)
EvenLengths == {2 * k : k \in 1..(MaxLen - 1)}

InitCodec12 ==
    /\ height = 1
    /\ hw = HwOff
    /\ ctor = FALSE
    /\ ip = 1
    /\ start = 0
    /\ row = 0
    /\ lp = "caset"
    /\ draws = 0
    /\ fails = 0
    /\ mode = "t_raw"
    /\ width \in EvenLengths
    /\ \E p \in 0..((width \div 2) - 1), old \in {0, 255},
          filler \in (IF width = 2 THEN {0} ELSE {0, 255}),
          c \in (IF width = 2 THEN 0..255 ELSE Few),
          d \in (IF width = 2 THEN 0..255 ELSE Few) :
            /\ buffer = [x \in 0..(width - 1) |->
                           IF x = 2 * p THEN c ELSE IF x = 2 * p + 1 THEN d ELSE filler]
            /\ linebuf = [n \in 0..(3 * (width \div 2)) |-> old]
            /\ args = <<c, d, p, old>>
    /\ snap = buffer

\* _lcopy12(lb, buf[0 :], wd)
CodecConvert12 ==
    /\ mode = "t_raw"
    /\ linebuf' = lcopy12(linebuf, Slice(buffer, 0), width)
    /\ mode' = "t_out"
    /\ UNCHANGED <<height, width, buffer, hw, ctor, ip, start, row, lp, snap,
                   draws, fails, args>>

NextCodec12 == CodecConvert12

SpecCodec12 == InitCodec12 /\ [][NextCodec12]_vars

(***************************************************************************)
(* What the recording bus shows of the running or last call.               *)
(***************************************************************************)
Writes == hw.writes

IsCmd(i, b) == Writes[i].dc = 0 /\ Writes[i].buf = b

IsData(i, b) == i > 1 /\ Writes[i].dc = 1 /\ IsCmd(i - 1, b)

\* The writes of the command byte b (data/command low), in order.
CmdSeq(b) ==
    LET Test(i) == IsCmd(i, b)
    IN  SelectSeq([i \in 1..Len(Writes) |-> i], Test)

\* The data writes that follow a write of the command byte b, in order.
DataSeq(b) ==
    LET Test(i) == IsData(i, b)
    IN  SelectSeq([i \in 1..Len(Writes) |-> i], Test)

NCmd(b) == Len(CmdSeq(b))

NData(b) == Len(DataSeq(b))

\* The k-th payload (k from 1) sent with the command b.
Payload(b, k) == Writes[DataSeq(b)[k]].buf

\* The k-th in-memory row (k from 1) of the pixel buffer show was entered with.
SnapRow(k) == [x \in 0..(width - 1) |-> snap[(k - 1) * width + x]]

\* The sub-fields of a pixel on the wire: first byte b0, second byte b1.
WireRed(b0, b1) == (b1 \div 4) % 8

WireGreen(b0, b1) == b0 % 8

WireBlue(b0, b1) == b0 \div 64

\* The row offset of the panel, line 159.
RowOffset == 2

RowStart(p) == p[1] * 256 + p[2]

RowEnd(p) == p[3] * 256 + p[4]

C2_ScanlineCounts ==
    mode = "idle" =>
        /\ NCmd(RASET) = height
        /\ NCmd(RAMWR) = height
        /\ NData(RAMWR) = height
        /\ \A k \in 1..NData(RAMWR) : Len(Payload(RAMWR, k)) = 2 * width

C2_Witness ==
    /\ mode = "idle"
    /\ height = 3
    /\ width = 2
    /\ NData(RAMWR) = 3
    /\ Len(Payload(RAMWR, 3)) = 4

(***************************************************************************)
(* C3: the first scanline of a show() is addressed to row height - 1, the  *)
(* row addressed decreases by exactly one per scanline, and the last       *)
(* scanline of a completed show() is addressed to row 0.                   *)
(***************************************************************************)
C3_RowsDescend ==
    LET rows == DataSeq(RASET)
        n == Len(rows)
    IN  /\ \A k \in 1..n : RowStart(Writes[rows[k]].buf) - RowOffset = height - k
        /\ mode = "idle" => n = height

C3_Witness ==
    /\ mode = "idle"
    /\ height = 4
    /\ RowStart(Payload(RASET, 1)) = 3 + RowOffset
    /\ RowStart(Payload(RASET, 4)) = RowOffset

(***************************************************************************)
(* C4: the column-address-set payload is the same four bytes for every     *)
(* scanline, (3 << 16) | 160 big-endian with start 3 <= end 160, whatever  *)
(* the pixel buffer and the row; the row-address-set payloads of different *)
(* scanlines differ.                                                       *)
(***************************************************************************)
C4_ColumnWindowFixed ==
    LET cols == DataSeq(CASET)
        rows == DataSeq(RASET)
    IN  /\ \A k \in 1..Len(cols) :
              /\ Writes[cols[k]].buf = <<0, 3, 0, 160>>
              /\ RowStart(Writes[cols[k]].buf) <= RowEnd(Writes[cols[k]].buf)
        /\ \A j, k \in 1..Len(rows) :
              j # k => Writes[rows[j]].buf # Writes[rows[k]].buf

C4_Witness ==
    /\ mode = "idle"
    /\ height >= 2
    /\ \E i \in DOMAIN snap : snap[i] # 0
    /\ NData(CASET) = height
    /\ NData(RASET) = height

(***************************************************************************)
(* C5: for the source byte c at index i the codec writes                   *)
(* dest[2i] = (blue bits << 6) | green bits and dest[2i+1] = red bits << 2,*)
(* for every i below the length.                                           *)
(***************************************************************************)
C5_CodecBytes ==
    mode = "c_out" =>
        /\ DOMAIN linebuf = 0..(2 * width - 1)
        /\ \A i \in 0..(width - 1) :
              LET c == buffer[i]
              IN  /\ linebuf[2 * i] = (c % 4) * 64 + ((c \div 4) % 8)
                  /\ linebuf[2 * i + 1] = (c \div 32) * 4

C5_Witness ==
    /\ mode = "c_out"
    /\ width = 3
    /\ buffer[1] = 182
    /\ linebuf[2] = 133
    /\ linebuf[3] = 20

(***************************************************************************)
(* C6: decoding the two wire bytes of a pixel recovers the red, green and  *)
(* blue sub-fields of the source byte, the other wire bits are zero, and   *)
(* no other source byte has the same wire bytes.                           *)
(***************************************************************************)
C6_CodecRoundTrip ==
    mode = "c_out" =>
        \A i \in 0..(width - 1) :
            LET c == buffer[i]
                b0 == linebuf[2 * i]
                b1 == linebuf[2 * i + 1]
            IN  /\ WireRed(b0, b1) * 32 + WireGreen(b0, b1) * 4 + WireBlue(b0, b1) = c
                /\ (b0 \div 8) % 8 = 0
                /\ b1 % 4 = 0
                /\ b1 \div 32 = 0
                /\ width = 1 =>
                      \A c2 \in 0..255 :
                          c2 # c => <<lcopy_bg(c2), lcopy_red(c2)>> # <<b0, b1>>

C6_Witness ==
    /\ mode = "c_out"
    /\ args = << >>
    /\ buffer[0] = 255
    /\ linebuf[0] = 199
    /\ linebuf[1] = 28

(***************************************************************************)
(* C7: a bus write that raises ends the call: it is the last write the bus *)
(* sees of that call (no later scanline, no retry) and the caller gets the *)
(* failure; when it is the write-memory command of scanline k, the bus has *)
(* seen k column and k row commands and k - 1 write-memory payloads.       *)
(***************************************************************************)
C7_FailureAborts ==
    LET n == Len(Writes)
    IN  /\ \A i \in 1..n : ~Writes[i].ok => i = n
        /\ (n > 0 /\ ~Writes[n].ok) <=> mode \in {"raised", "dead"}
        /\ (n > 0 /\ ~Writes[n].ok /\ Writes[n].dc = 0 /\ Writes[n].buf = RAMWR) =>
              LET k == NCmd(RAMWR)
              IN  /\ NCmd(CASET) = k
                  /\ NCmd(RASET) = k
                  /\ NData(RAMWR) = k - 1
                  /\ n = 6 * (k - 1) + 5

C7_Witness ==
    /\ mode = "raised"
    /\ height = 4
    /\ Len(Writes) = 17
    /\ ~Writes[17].ok
    /\ Writes[17].buf = RAMWR
    /\ Writes[17].dc = 0
    /\ NCmd(RAMWR) = 3

(***************************************************************************)
(* C8: a 2x2 buffer whose top-left pixel is rgb(255, 0, 0), the others 0.  *)
(***************************************************************************)
C8_Case ==
    /\ mode = "idle"
    /\ height = 2
    /\ width = 2
    /\ snap = [i \in 0..3 |-> IF i = 0 THEN rgb(255, 0, 0) ELSE 0]

RedPixel(p, x) ==
    /\ WireRed(p[2 * x + 1], p[2 * x + 2]) = 7
    /\ WireGreen(p[2 * x + 1], p[2 * x + 2]) = 0
    /\ WireBlue(p[2 * x + 1], p[2 * x + 2]) = 0

\* C8 as stated: show() issues two scanlines and the second one transmitted
\* holds the pixel that decodes to red 111, green 0, blue 0.
C8_SecondScanlineRed ==
    C8_Case =>
        /\ NData(RAMWR) = 2
        /\ \E x \in 0..1 : RedPixel(Payload(RAMWR, 2), x)

\* C8 as amended: show() issues two scanlines and the first one transmitted
\* (addressed to row 1) holds the pixel that decodes to red 111, green 0,
\* blue 0, as its first pixel; every other transmitted pixel byte is zero.
C8_FirstScanlineRed ==
    C8_Case =>
        /\ NData(RAMWR) = 2
        /\ RedPixel(Payload(RAMWR, 1), 0)
        /\ Payload(RAMWR, 1)[3] = 0
        /\ Payload(RAMWR, 1)[4] = 0
        /\ Payload(RAMWR, 2) = <<0, 0, 0, 0>>
        /\ RowStart(Payload(RASET, 1)) = 1 + RowOffset

C8_Witness ==
    /\ C8_Case
    /\ buffer = snap
    /\ NData(RAMWR) = 2

(***************************************************************************)
(* C9: every write-memory payload is the conversion of its scanline alone: *)
(* it equals what the codec yields for that scanline on a line buffer that *)
(* held other bytes before, so every byte of the line buffer was           *)
(* overwritten and nothing of an earlier scanline is transmitted.  Each    *)
(* payload is compared where it is the last write, when show has just sent *)
(* it.                                                                     *)
(***************************************************************************)
C9_NoStaleBytes ==
    (mode \in {"show", "idle"} /\ lp = "caset" /\ Len(Writes) > 0) =>
        LET n == Len(Writes)
        IN  /\ IsData(n, RAMWR)
            /\ n % 6 = 0
            /\ Writes[n].buf =
                  AsBytes(lcopy([x \in 0..(2 * width - 1) |-> 255],
                                SnapRow(n \div 6), width))

C9_Witness ==
    /\ mode = "idle"
    /\ height = 2
    /\ \E x \in 1..(2 * width) : Payload(RAMWR, 1)[x] # 0
    /\ Payload(RAMWR, 2) = [x \in 1..(2 * width) |-> 0]

(***************************************************************************)
(* C10: rgb(r, g, b) is a byte rrrgggbb made of the top 3 bits of r, the   *)
(* top 3 bits of g and the top 2 bits of b, and the codec puts exactly     *)
(* those bits in the red, green and blue sub-fields of the wire bytes.     *)
(***************************************************************************)
C10_RgbAgreesWithCodec ==
    (mode \in {"c_enc", "c_out"} /\ args # << >>) =>
        LET c == buffer[0]
        IN  /\ c \in 0..255
            /\ c = (args[1] \div 32) * 32 + (args[2] \div 32) * 4 + (args[3] \div 64)
            /\ mode = "c_out" =>
                  /\ WireRed(linebuf[0], linebuf[1]) = args[1] \div 32
                  /\ WireGreen(linebuf[0], linebuf[1]) = args[2] \div 32
                  /\ WireBlue(linebuf[0], linebuf[1]) = args[3] \div 64

C10_Witness ==
    /\ mode = "c_out"
    /\ args = <<255, 85, 0>>
    /\ buffer[0] = 232
    /\ linebuf[0] = 2
    /\ linebuf[1] = 28

(***************************************************************************)
(* C11: a show() whose bus writes all complete returns after exactly       *)
(* height iterations of its loop, having sent the conversion of every byte *)
(* of the pixel buffer exactly once, in buffer order; a running show() is  *)
(* always at a statement of its loop and every step brings it nearer to    *)
(* its end, which is at most 3 * height steps away.                        *)
(***************************************************************************)
StepsLeft ==
    3 * (row + 1) - (IF lp = "caset" THEN 0 ELSE IF lp = "raset" THEN 1 ELSE 2)

C11_Transferred ==
    mode = "idle" =>
        LET sent == DataSeq(RAMWR)
        IN  /\ Len(sent) = height
            /\ NCmd(CASET) = height
            /\ row = -1
            /\ start = width * height
            /\ \A k \in 1..height : \A x \in 0..(width - 1) :
                  LET c == snap[(k - 1) * width + x]
                      p == Writes[sent[k]].buf
                  IN  /\ Len(p) = 2 * width
                      /\ p[2 * x + 1] = (c % 4) * 64 + ((c \div 4) % 8)
                      /\ p[2 * x + 2] = (c \div 32) * 4

C11_FullTransfer ==
    /\ []C11_Transferred
    /\ [](mode = "show" => (StepsLeft >= 0 /\ lp \in {"caset", "raset", "ramwr"}))
    /\ [][(mode = "show" /\ mode' = "show") => StepsLeft' < StepsLeft]_vars

\* C11, termination under the fairness of SpecLive: a running show() always
\* returns or raises.
C11_Terminates == (mode = "show") ~> (mode \in {"idle", "raised", "dead"})

C11_Witness ==
    /\ mode = "idle"
    /\ height = 3
    /\ width = 2
    /\ snap[3] # 0
    /\ row = -1
    /\ start = 6
    /\ NData(RAMWR) = 3

(***************************************************************************)
(* The commands of _init by what they configure.                           *)
(***************************************************************************)
SLPOUT == <<\H11>>

FRMCTR1 == <<\Hb1>>

FRMCTR3 == <<\Hb3>>

PWCTR1 == <<\Hc0>>

PWCTR5 == <<\Hc4>>

COLMOD == <<\H3a>>

GMCTRP1 == <<\He0>>

GMCTRN1 == <<\He1>>

DISPON == <<\H29>>

\* The record of the bus is that of an _init call: it starts with SWRESET.
InitRecord == Len(Writes) > 0 /\ Writes[1].dc = 0 /\ Writes[1].buf = <<1>>

\* The position of the first write of the command b, 0 when there is none.
Pos(b) == IF NCmd(b) = 0 THEN 0 ELSE CmdSeq(b)[1]

\* The command b is written only after the command a.
Ordered(a, b) == Pos(b) > 0 => (Pos(a) > 0 /\ Pos(a) < Pos(b))

\* The reset line has gone 1, 0, 1 before the first bus write, and stays 1.
ResetFirst ==
    /\ mode = "reset" => (Writes = << >> /\ hw.rsts = << >>)
    /\ mode # "reset" => (hw.rsts = <<1, 0, 1>> /\ hw.rst = 1)

\* Display-on is the last write of _init, and _init has then issued all of
\* its 33 writes.
DisplayOnLast ==
    Pos(DISPON) > 0 => (Pos(DISPON) = Len(Writes) /\ Len(Writes) = 33)

(***************************************************************************)
(* C12 as stated: reset first, then sleep-out, frame-rate control, power   *)
(* control, gamma tables, pixel-format select, display-on, in that order.  *)
(* It fails: _init selects the pixel format before it loads the gamma      *)
(* tables.                                                                 *)
(***************************************************************************)
C12_GammaBeforePixelFormat ==
    /\ ResetFirst
    /\ InitRecord =>
          /\ Ordered(SLPOUT, FRMCTR1)
          /\ Ordered(FRMCTR1, FRMCTR3)
          /\ Ordered(FRMCTR3, PWCTR1)
          /\ Ordered(PWCTR1, PWCTR5)
          /\ Ordered(PWCTR5, GMCTRP1)
          /\ Ordered(GMCTRP1, GMCTRN1)
          /\ Ordered(GMCTRN1, COLMOD)
          /\ Ordered(COLMOD, DISPON)
          /\ DisplayOnLast

(***************************************************************************)
(* C12 as amended: reset first, then sleep-out, frame-rate control, power  *)
(* control, pixel-format select, gamma tables, display-on, in that order,  *)
(* display-on being the last command.                                      *)
(***************************************************************************)
C12_InitOrder ==
    /\ ResetFirst
    /\ InitRecord =>
          /\ Ordered(SLPOUT, FRMCTR1)
          /\ Ordered(FRMCTR1, FRMCTR3)
          /\ Ordered(FRMCTR3, PWCTR1)
          /\ Ordered(PWCTR1, PWCTR5)
          /\ Ordered(PWCTR5, COLMOD)
          /\ Ordered(COLMOD, GMCTRP1)
          /\ Ordered(GMCTRP1, GMCTRN1)
          /\ Ordered(GMCTRN1, DISPON)
          /\ DisplayOnLast

C12_Witness ==
    /\ mode = "init"
    /\ ip = Len(InitSeq) + 1
    /\ hw.rsts = <<1, 0, 1>>
    /\ Len(Writes) = 33
    /\ Writes[33].buf = DISPON
    /\ Pos(COLMOD) = 26
    /\ Pos(GMCTRP1) = 28

(***************************************************************************)
(* The bus writes _init is to make, lines 116-145, each with its kind:     *)
(* 0 for command bytes, 1 for a data payload.                              *)
(***************************************************************************)
RECURSIVE InitWrites(_)
InitWrites(n) ==
    IF n = 0 THEN << >>
    ELSE InitWrites(n - 1) \o <<[buf |-> InitSeq[n].c, kind |-> 0]>>
         \o (IF InitSeq[n].d = << >> THEN << >>
             ELSE <<[buf |-> InitSeq[n].d, kind |-> 1]>>)

AllInitWrites == InitWrites(Len(InitSeq))

(***************************************************************************)
(* C13: at every bus write chip-select is active (low) and data/command    *)
(* is low for command bytes and high for a data payload; the writes of     *)
(* _init are those of its statements in order, so that a command without a *)
(* payload is followed by the next command and by no data write; in show   *)
(* command and payload alternate.                                          *)
(***************************************************************************)
C13_PinsMatchWrites ==
    /\ \A i \in 1..Len(Writes) : Writes[i].cs = 0
    /\ InitRecord =>
          /\ Len(Writes) <= Len(AllInitWrites)
          /\ \A i \in 1..Len(Writes) :
                /\ Writes[i].buf = AllInitWrites[i].buf
                /\ Writes[i].dc = AllInitWrites[i].kind
    /\ ~InitRecord =>
          \A i \in 1..Len(Writes) :
              IF i % 2 = 1
              THEN Writes[i].dc = 0 /\ Writes[i].buf \in {CASET, RASET, RAMWR}
              ELSE Writes[i].dc = 1 /\ Len(Writes[i].buf) \in {4, 2 * width}

C13_Witness ==
    /\ mode = "init"
    /\ Len(Writes) = 4
    /\ Writes[1].buf = <<1>>
    /\ Writes[2].buf = SLPOUT
    /\ Writes[2].dc = 0
    /\ Writes[4].dc = 1
    /\ Writes[4].cs = 0

\* The command bytes of one scanline, in the order of lines 158-160.
ScanlineCmds == << <<\H2a>>, <<\H2b>>, <<\H2c>> >>

\* The wire bytes of the source byte c, first and second.
Wire0(c) == (c % 4) * 64 + ((c \div 4) % 8)

Wire1(c) == (c \div 32) * 4

\* b holds the conversion of the width source bytes of src from index s on.
Converted(b, src, s) ==
    /\ Len(b) = 2 * width
    /\ \A x \in 0..(width - 1) :
          /\ b[2 * x + 1] = Wire0(src[s + x])
          /\ b[2 * x + 2] = Wire1(src[s + x])

(***************************************************************************)
(* C14: in a show the command writes cycle through 0x2A, 0x2B, 0x2C, each  *)
(* followed by its payload in data mode; every payload of 0x2C has, since  *)
(* the 0x2C before it, a completed 0x2A and a completed 0x2B with their    *)
(* payloads; the line buffer already holds the conversion of the scanline  *)
(* when 0x2A has been sent and 0x2B or 0x2C is next: the codec runs first; *)
(* and the payload of 0x2C, when it has just been sent, is the line        *)
(* buffer.                                                                 *)
(***************************************************************************)
C14_ScanlineOrder ==
    mode \in {"show", "idle", "raised"} =>
        /\ \A i \in 1..Len(Writes) :
              IF i % 2 = 1
              THEN /\ Writes[i].dc = 0
                   /\ Writes[i].buf = ScanlineCmds[(((i - 1) \div 2) % 3) + 1]
              ELSE /\ Writes[i].dc = 1
                   /\ Writes[i - 1].ok
                   /\ Writes[i - 1].buf = ScanlineCmds[3] =>
                         /\ i >= 6
                         /\ Writes[i - 5].buf = ScanlineCmds[1]
                         /\ Writes[i - 4].ok
                         /\ Writes[i - 3].buf = ScanlineCmds[2]
                         /\ Writes[i - 2].ok
                         /\ Len(Writes[i].buf) = 2 * width
        /\ (mode = "show" /\ lp \in {"raset", "ramwr"}) =>
              /\ Len(Writes) > 0
              /\ Writes[Len(Writes)].ok
              /\ Writes[Len(Writes) - 1].buf
                    = (IF lp = "raset" THEN ScanlineCmds[1] ELSE ScanlineCmds[2])
              /\ Converted(AsBytes(linebuf), buffer, start)
        /\ (mode = "show" /\ lp = "caset" /\ Len(Writes) > 0) =>
              Writes[Len(Writes)].buf = AsBytes(linebuf)

C14_Witness ==
    /\ mode = "show"
    /\ lp = "caset"
    /\ height >= 2
    /\ row = height - 3
    /\ Len(Writes) = 12
    /\ Writes[11].buf = RAMWR
    /\ Writes[12].buf # Writes[6].buf

\* Target rows around the byte carries, up to the largest whose shifted row
\* start the checker's 32-bit integers hold.
RowProbe == {0, 1, 252, 253, 254, 255, 256, 32764, 32765}

\* The four bytes of a window whose 16-bit fields are s and e.
WindowBytes(s, e) == <<s \div 256, s % 256, e \div 256, e % 256>>

\* Line 159 on the probe rows: row start and row end each in their two bytes.
\* It depends on no state and is evaluated where the object is constructed.
RowProbeSeparate ==
    \A r \in RowProbe :
        RasetArg(r) = WindowBytes(r + RowOffset, r + RowOffset + 1)

(***************************************************************************)
(* C15: the payload of the k-th row-address-set of a show (k from 1), for  *)
(* target row height - k, is the 4 bytes, big-endian, of                   *)
(* (row_start << 16) | row_end with row_start = row + 2 and                *)
(* row_end = row_start + 1, in every show; row_start <= row_end; and for   *)
(* every row whose row_end fits in 16 bits the sum line 159 computes puts  *)
(* row_start in the first two bytes and row_end in the last two.           *)
(***************************************************************************)
C15_RowWindow ==
    /\ mode \in {"show", "idle", "raised"} =>
          /\ \A i \in 1..Len(Writes) :
                (i % 2 = 0 /\ Writes[i].dc = 1 /\ Writes[i - 1].buf = <<\H2b>>) =>
                    LET p == Writes[i].buf
                        r == height - ((i + 2) \div 6)
                    IN  /\ r \in 0..(height - 1)
                        /\ p = WindowBytes(r + RowOffset, r + RowOffset + 1)
                        /\ RowStart(p) <= RowEnd(p)
          \* the bitwise or of the two fields, on the payload just sent
          /\ (mode = "show" /\ lp = "ramwr") =>
                LET p == Writes[Len(Writes)].buf
                IN  RowStart(p) * 65536 + RowEnd(p)
                       = BitOr(Shl(row + RowOffset, 16), row + RowOffset + 1)
    /\ mode = "reset" => RowProbeSeparate

C15_Witness ==
    /\ mode = "show"
    /\ ~ctor
    /\ height = 4
    /\ Len(Writes) = 10
    /\ Writes[4].buf = <<0, 5, 0, 6>>
    /\ Writes[10].buf = <<0, 4, 0, 5>>

(***************************************************************************)
(* C16: while show runs, start = (height - 1 - row) * width; where an      *)
(* iteration begins (and until it ends) start + width <= width * height    *)
(* and the width bytes the codec reads from start on are bytes of the      *)
(* pixel buffer; and the payload of the k-th 0x2C (k from 0), checked when *)
(* it has just been sent, is the conversion of the in-memory bytes         *)
(* k * width .. (k + 1) * width - 1 and follows a row-address-set for row  *)
(* height - 1 - k.                                                         *)
(***************************************************************************)
C16_ScanPointer ==
    /\ mode \in {"show", "idle"} =>
          /\ start = (height - 1 - row) * width
          /\ row \in -1..(height - 1)
    /\ (mode = "show" /\ row >= 0) =>
          /\ start + width <= width * height
          /\ Cardinality(DOMAIN buffer) = width * height
          /\ \A x \in 0..(width - 1) : (start + x) \in DOMAIN buffer
    /\ (mode = "show" /\ lp = "caset" /\ Len(Writes) > 0) =>
          LET n == Len(Writes)
              k == (n \div 6) - 1
          IN  /\ n % 6 = 0
              /\ Writes[n - 1].buf = <<\H2c>>
              /\ start = (k + 1) * width
              /\ Converted(Writes[n].buf, snap, k * width)
              /\ Writes[n - 3].buf = <<\H2b>>
              /\ RowStart(Writes[n - 2].buf) - RowOffset = height - 1 - k
              /\ row = height - 1 - k - 1

C16_Witness ==
    /\ mode = "show"
    /\ lp = "caset"
    /\ height = 4
    /\ width = 2
    /\ row = 1
    /\ start = 4
    /\ Len(Writes) = 12
    /\ snap[3] # 0
    /\ Writes[12].buf[3] # 0

(***************************************************************************)
(* C17: no step of show, completing or raising, changes a byte of the      *)
(* pixel buffer: while show runs the buffer is the one show was entered    *)
(* with, and the step that ends it leaves it so; the pixel buffer has      *)
(* width * height bytes and the line buffer 2 * width bytes in every       *)
(* state, as allocated at lines 75 and 79.                                 *)
(***************************************************************************)
C17_BufferUntouched ==
    /\ [](/\ DOMAIN buffer = 0..(width * height - 1)
          /\ DOMAIN linebuf = 0..(2 * width - 1)
          /\ (mode = "show" => buffer = snap))
    /\ [][mode = "show" => (buffer' = buffer /\ height' = height /\ width' = width)]_vars

C17_Witness ==
    /\ mode = "raised"
    /\ ~ctor
    /\ draws = 1
    /\ buffer = snap
    /\ Len(Writes) >= 6
    /\ ~Writes[Len(Writes)].ok
    /\ \E i \in DOMAIN buffer : buffer[i] # 0

C19_PinsAfterFailure ==
    /\ hw.exc <=> mode \in {"raised", "dead"}
    /\ Len(Writes) > 0 =>
          LET last == Writes[Len(Writes)]
          IN  /\ last.ok <=> mode \in {"init", "show", "idle"}
              /\ last.ok <=> hw.cs = 1
              /\ ~last.ok =>
                    /\ hw.cs = 0
                    /\ last.cs = 0
                    /\ hw.dc = last.dc
                    /\ hw.rst = 1
                    /\ \A i \in 1..(Len(Writes) - 1) : Writes[i].ok

C19_Witness ==
    /\ mode = "raised"
    /\ hw.exc
    /\ hw.cs = 0
    /\ hw.dc = 1
    /\ Len(Writes) = 6
    /\ Writes[5].buf = <<\H2c>>
    /\ Writes[5].ok
    /\ ~Writes[6].ok

(***************************************************************************)
(* C20: for a source of even length, _lcopy12 turns each pair of source    *)
(* bytes c, d into three destination bytes <R0 0 G0 0> <B0 00 R1 0>        *)
(* <G1 0 B1 00>, that is                                                   *)
(*   (c & 0xE0) | ((c & 0x1C) >> 1),                                       *)
(*   ((c & 3) << 6) | ((d & 0xE0) >> 4),                                   *)
(*   ((d & 0x1C) << 3) | ((d & 3) << 2),                                   *)
(* and writes 3 * length / 2 bytes: the byte after them keeps its value.   *)
(* The fields are given by arithmetic on c and d: red c \div 32, green     *)
(* (c \div 4) % 8, blue c % 4.                                             *)
(***************************************************************************)
C20_Codec12Bytes ==
    mode = "t_out" =>
        /\ DOMAIN linebuf = 0..(3 * (width \div 2))
        /\ linebuf[3 * (width \div 2)] = args[4]
        /\ buffer = snap
        /\ \A j \in 0..((width \div 2) - 1) :
              LET c == buffer[2 * j]
                  d == buffer[2 * j + 1]
              IN  /\ linebuf[3 * j] = (c \div 32) * 32 + ((c \div 4) % 8) * 2
                  /\ linebuf[3 * j + 1] = (c % 4) * 64 + (d \div 32) * 2
                  /\ linebuf[3 * j + 2] = ((d \div 4) % 8) * 32 + (d % 4) * 4

C20_Witness ==
    /\ mode = "t_out"
    /\ width = 4
    /\ args = <<255, 85, 1, 255>>
    /\ buffer = [x \in 0..3 |-> IF x = 2 THEN 255 ELSE IF x = 3 THEN 85 ELSE 0]
    /\ linebuf = [n \in 0..6 |-> <<0, 0, 0, 238, 196, 164, 255>>[n + 1]]
====
